---- MODULE Spec2Model ----
(***************************************************************************)
(* genkitx-weaviate: the Weaviate client wrapper (src/src/client.ts,       *)
(* class WeaviateClientWrapper), the indexer and retriever actions built   *)
(* on it, and the plugin that registers them.                              *)
(*                                                                         *)
(* Every async call is a process: it runs from one await to the next in    *)
(* one step.  The vector store and the embedder are the environment: a     *)
(* store request is answered in one step, from the store's state at that   *)
(* moment, and may be made to raise (a fault).                             *)
(***************************************************************************)
EXTENDS Naturals, Sequences, FiniteSets, TLC

\* ------------------------------------------------------------ bounds
NCalls == 2          \* calls issued in one run
MaxDocs == 2         \* documents handed to one indexing call
MaxChunks == 2       \* embeddings the embedder returns for a document it splits

Procs == 1..NCalls
Names == {"A", "B"}                   \* collection names
Ids == {101, 102}                     \* caller-assigned object ids
NoId == 0                             \* an object given no id

\* ------------------------------------------------------------ state
VARIABLES
  conn,             \* initPromise: "none" (no wrapper yet), "pending", "ok", "failed"
  connectAttempts,  \* connectToLocal / connectToWeaviateCloud calls made so far
  collections,      \* the store: names of the collections that exist
  objects,          \* the store: per collection, its objects in insertion order
  faulted,          \* whether the store has made some request raise (a fault)
  nextId,           \* identifiers generated so far (uuidv4, store-assigned ids)
  calls,            \* per call: operation, arguments, position, locals, result
  config,           \* the plugin's params.collections
  pluginState,      \* "none" (no plugin), "new", "ok", "failed" (the initializer threw)
  setupError,       \* the collection the initializer's error names, "" when none
  indexers,         \* collection names an indexer action is registered for
  retrievers        \* collection names a retriever action is registered for

vars == <<conn, connectAttempts, collections, objects, faulted, nextId, calls,
          config, pluginState, setupError, indexers, retrievers>>
pluginVars == <<config, pluginState, setupError, indexers, retrievers>>
storeVars == <<collections, objects>>

\* ------------------------------------------------------------ values
CollectionConfigs ==
  { [description |-> "none", properties |-> "none"],
    [description |-> "docs", properties |-> "custom"] }

IdSeqs == { << >>, <<101>>, <<101, 102>>, <<102, 101>> }

\* objects as a caller hands them to insertObjects
CallerObject(id) ==
  [id |-> id,
   properties |-> [content |-> <<"c", 1>>, contentType |-> "", metadata |-> <<"{", "}">>],
   vector |-> <<1, 1>>]
CallerBatches ==
  { << >>, << CallerObject(NoId) >>, << CallerObject(101), CallerObject(102) >> }

\* ------------------------------------------------------------ documents
\* metadata: undefined, or an object (its key/value pairs in insertion order)
\* a value: def says whether it is truthy, kv holds an object's members, prim the
\* text of a primitive (null, a number)
NoMeta == [def |-> FALSE, kv |-> << >>, prim |-> ""]
\* dataType: undefined, or a type name
NoType == "undefined"
Obj(kv) == [def |-> TRUE, kv |-> kv, prim |-> ""]
Prim(t) == [def |-> t # "null", kv |-> << >>, prim |-> t]

D1 == [text |-> "t1", dataType |-> "text", metadata |-> Obj(<< <<"source", "docs">> >>)]
D2 == [text |-> "t2", dataType |-> NoType, metadata |-> NoMeta]
DocPool == {D1, D2}
DocLists == UNION { [1..n -> DocPool] : n \in 0..MaxDocs }

Key(text) == IF text = "t1" THEN 1 ELSE 2

\* the parts the embedder splits a document into: the first document of the pool
\* into MaxChunks, the other into one
Parts(doc) == IF doc.text = "t1" THEN MaxChunks ELSE 1

\* the embedder's answer for a document: one embedding per part
Embeddings(doc) == [j \in 1..Parts(doc) |-> [embedding |-> <<Key(doc.text), j>>]]

\* doc.getEmbeddingDocuments(embeddings): one sub-document per embedding, the
\* j-th holding the j-th part of the document with the document's type and metadata
getEmbeddingDocuments(doc, embeddings) ==
  [j \in DOMAIN embeddings |->
     [data |-> <<doc.text, j>>, dataType |-> doc.dataType, metadata |-> doc.metadata]]

RECURSIVE Members(_)
Members(kv) ==
  IF kv = << >> THEN << >>
  ELSE << Head(kv)[1], ":", Head(kv)[2] >> \o Members(Tail(kv))

\* a variant that writes the object's default string form
defaultString(obj) == <<"[object Object]">>

\* JSON.stringify of an object: its text, as a sequence of tokens
JSONstringify(obj) == <<"{">> \o Members(obj.kv) \o <<"}">>

\* x || {} and x || ""
OrEmptyObject(m) == IF m.def THEN m ELSE Obj(<< >>)
OrEmptyString(t) == IF t = NoType THEN "" ELSE t

\* the options of one indexing call: createCollectionIfMissing and collectionConfig
IndexerOptions ==
  { [create |-> "unset", cfg |-> [description |-> "none", properties |-> "none"]],
    [create |-> "true", cfg |-> [description |-> "docs", properties |-> "custom"]],
    [create |-> "false", cfg |-> [description |-> "none", properties |-> "none"]] }

\* ------------------------------------------------------------ queries
\* an optional value: << >> when unset, <<v>> when set
Unset == << >>
Some(v) == <<v>>

\* the options of one retrieval call
RetrieverOptions ==
  { [k |-> Unset, distance |-> Unset, filters |-> Unset],
    [k |-> Some(1), distance |-> Some(0), filters |-> Unset],
    [k |-> Some(5), distance |-> Unset, filters |-> Unset],
    [k |-> Some(5), distance |-> Some(1), filters |-> Some("text")] }

\* the arguments of a direct call of search
SearchArgs ==
  { [limit |-> Unset, options |-> [distance |-> Unset, filters |-> Unset]],
    [limit |-> Some(1), options |-> [distance |-> Some(0), filters |-> Some("text")]] }

DefaultLimit == 10

AbsDiff(a, b) == IF a > b THEN a - b ELSE b - a
\* the store's distance between two vectors
Distance(v, w) == AbsDiff(v[1], w[1]) + AbsDiff(v[2], w[2])

NoCall ==
  [op |-> "none", name |-> "", pc |-> "idle", res |-> "none", log |-> << >>,
   cfg |-> [description |-> "none", properties |-> "none"],
   ids |-> << >>, i |-> 1, objs |-> << >>, count |-> 0,
   docs |-> << >>, opt |-> "unset", pending |-> {}, emb |-> << >>,
   arrival |-> << >>, rejected |-> FALSE, prior |-> {}, had |-> FALSE,
   vec |-> << >>, limit |-> 0, sopt |-> [distance |-> << >>, filters |-> << >>],
   ropt |-> [k |-> << >>, distance |-> << >>, filters |-> << >>], out |-> << >>,
   hits |-> << >>, late |-> FALSE]

Ev(k, n, x) == [k |-> k, n |-> n, x |-> x]
Log(c, e) == [c EXCEPT !.log = Append(@, e)]
Return(c, r) == [c EXCEPT !.pc = "done", !.res = r]
Throw(c, e) == [c EXCEPT !.pc = "done", !.res = e]

Errors == {"err_conn", "err_store", "err_exists", "err_embed", "err_type"}

\* the requests that go to the store
StoreKinds ==
  {"config", "create", "insert", "search", "deleteById", "delete", "aggregate"}

\* ------------------------------------------------------------ the store

\* whether the store raises on a request of kind k against collection n
StoreRaises(k, n, f) ==
  \/ f
  \/ k \in {"config", "insert", "search", "deleteById", "aggregate"} /\ n \notin collections
  \/ k = "create" /\ n \in collections

StoredIds(n) == { objects[n][j].id : j \in DOMAIN objects[n] }

RECURSIVE StoreBatch(_, _, _)
\* insertMany: the objects of the batch, each stored under its id (a fresh one
\* when it has none); an object whose id the collection already holds is refused
StoreBatch(stored, batch, fresh) ==
  IF batch = << >> THEN stored
  ELSE LET o == Head(batch)
           id == IF o.id = NoId THEN fresh + 1 ELSE o.id
           taken == \E j \in DOMAIN stored : stored[j].id = id
       IN StoreBatch(IF taken THEN stored ELSE Append(stored, [o EXCEPT !.id = id]),
                     Tail(batch),
                     IF o.id = NoId THEN fresh + 1 ELSE fresh)

AutoIds(batch) == Cardinality({ j \in DOMAIN batch : batch[j].id = NoId })

RECURSIVE Without(_, _)
Without(s, id) ==
  IF s = << >> THEN << >>
  ELSE IF Head(s).id = id THEN Without(Tail(s), id)
  ELSE << Head(s) >> \o Without(Tail(s), id)

\* ------------------------------------------------------------ connection
\* the store before the wrapper is built: collection "A" exists and holds the
\* object 101 (102 is an id the store does not hold)
HeldAtStart ==
  << [id |-> 101,
      properties |-> CallerObject(101).properties,
      vectors |-> CallerObject(101).vector] >>

Init ==
  /\ conn = "none"
  /\ connectAttempts = 0
  /\ collections = {"A"}
  /\ objects = [n \in Names |-> IF n = "A" THEN HeldAtStart ELSE << >>]
  /\ faulted = FALSE
  /\ nextId = 0
  /\ calls = [p \in Procs |-> NoCall]
  /\ config = << >>
  /\ pluginState = "none"
  /\ setupError = ""
  /\ indexers = {}
  /\ retrievers = {}

\* constructor: this.initPromise = this.initialize(), which runs up to its await
\* of the one connect call
initialize ==
  /\ conn' = "pending"
  /\ connectAttempts' = connectAttempts + 1

WeaviateClientWrapper ==
  /\ conn = "none"
  /\ initialize
  /\ UNCHANGED <<storeVars, faulted, nextId, calls, pluginVars>>

\* the connect call settles: this.client is set, or initialize() rejects
connectSettles ==
  /\ conn = "pending"
  /\ \E r \in {"ok", "failed"} : conn' = r
  /\ UNCHANGED <<connectAttempts, storeVars, faulted, nextId, calls, pluginVars>>

\* a variant that does not wait for initPromise: a call goes on once the wrapper
\* is there
initPromiseNotAwaited == conn # "none"

\* await this.initPromise
initPromiseSettled == conn \in {"ok", "failed"}

InitPcs ==
  {"gc_init", "ce_init", "cc_init", "io_init", "se_init", "do_init", "dc_init", "gs_init"}

\* where a call goes on after its ensureInitialized
AfterInit(c) ==
  CASE c.pc = "gc_init" -> Return(c, "ok")
    [] c.pc = "ce_init" -> [c EXCEPT !.pc = "ce_lookup"]
    [] c.pc = "cc_init" -> [c EXCEPT !.pc = "ce_init"]
    [] c.pc = "io_init" -> [c EXCEPT !.pc = "io_insert"]
    [] c.pc = "se_init" -> [c EXCEPT !.pc = "se_query"]
    [] c.pc = "do_init" -> IF c.ids = << >> THEN Return(c, "ok")
                           ELSE [c EXCEPT !.pc = "do_delete"]
    [] c.pc = "dc_init" -> [c EXCEPT !.pc = "dc_delete"]
    [] c.pc = "gs_init" -> [c EXCEPT !.pc = "gs_config"]

\* a variant that connects again when the attempt has failed
ensureInitializedReconnecting(p) ==
  LET c == calls[p] IN
  /\ c.pc \in InitPcs
  /\ initPromiseSettled
  /\ IF conn = "failed"
     THEN /\ initialize
          /\ UNCHANGED calls
     ELSE /\ calls' = [calls EXCEPT ![p] = AfterInit(c)]
          /\ UNCHANGED <<conn, connectAttempts>>
  /\ UNCHANGED <<storeVars, faulted, nextId, pluginVars>>

ensureInitialized(p) ==
  LET c == calls[p] IN
  /\ c.pc \in InitPcs
  /\ initPromiseSettled
  /\ calls' = [calls EXCEPT ![p] =
       IF conn = "failed" THEN Throw(c, "err_conn") ELSE AfterInit(c)]
  /\ UNCHANGED <<conn, connectAttempts, storeVars, faulted, nextId, pluginVars>>

\* ------------------------------------------------------------ calls
\* What the properties need to know of a call's history.  prior (of a
\* createCollection call): the createCollection calls that had returned when it
\* was issued; had (of a call that may create its collection): the collection
\* existed when it was issued; late: the connection attempt had failed when it
\* was issued; arrival: the order its embed calls resolved in; rejected: the
\* embedder rejected one
Creators == {"createCollection", "index"}
Issue(p, op, n, pc0) ==
  [NoCall EXCEPT !.op = op, !.name = n, !.pc = pc0, !.late = (conn = "failed"),
                 !.prior = IF op = "createCollection"
                           THEN { q \in Procs : /\ calls[q].pc = "done"
                                                /\ calls[q].op = "createCollection" }
                           ELSE {},
                 !.had = (op \in Creators /\ n \in collections)]

Idle(p) ==
  /\ calls[p].pc = "idle"
  /\ conn # "none"
  /\ \A q \in Procs : q < p => calls[q].pc # "idle"

getClient(p) ==
  /\ Idle(p)
  /\ calls' = [calls EXCEPT ![p] = Issue(p, "getClient", "", "gc_init")]
  /\ UNCHANGED <<conn, connectAttempts, storeVars, faulted, nextId, pluginVars>>

collectionExists(p) ==
  /\ Idle(p)
  /\ \E n \in Names :
       calls' = [calls EXCEPT ![p] = Issue(p, "collectionExists", n, "ce_init")]
  /\ UNCHANGED <<conn, connectAttempts, storeVars, faulted, nextId, pluginVars>>

createCollection(p) ==
  /\ Idle(p)
  /\ \E n \in Names, cfg \in CollectionConfigs :
       calls' = [calls EXCEPT ![p] =
                   [Issue(p, "createCollection", n, "cc_init") EXCEPT !.cfg = cfg]]
  /\ UNCHANGED <<conn, connectAttempts, storeVars, faulted, nextId, pluginVars>>

insertObjects(p) ==
  /\ Idle(p)
  /\ \E n \in Names, b \in CallerBatches :
       calls' = [calls EXCEPT ![p] =
                   [Issue(p, "insertObjects", n, "io_init") EXCEPT !.objs = b]]
  /\ UNCHANGED <<conn, connectAttempts, storeVars, faulted, nextId, pluginVars>>

deleteObjects(p) ==
  /\ Idle(p)
  /\ \E n \in Names, ids \in IdSeqs :
       calls' = [calls EXCEPT ![p] =
                   [Issue(p, "deleteObjects", n, "do_init") EXCEPT !.ids = ids]]
  /\ UNCHANGED <<conn, connectAttempts, storeVars, faulted, nextId, pluginVars>>

deleteCollection(p) ==
  /\ Idle(p)
  /\ \E n \in Names :
       calls' = [calls EXCEPT ![p] = Issue(p, "deleteCollection", n, "dc_init")]
  /\ UNCHANGED <<conn, connectAttempts, storeVars, faulted, nextId, pluginVars>>

\* limit: number = 10
\* a variant that goes to its query without awaiting the connection
searchUnguarded(p) ==
  /\ Idle(p)
  /\ \E n \in Names, a \in SearchArgs :
       calls' = [calls EXCEPT ![p] =
                   [Issue(p, "search", n, "se_query") EXCEPT
                      !.vec = <<1, 1>>,
                      !.limit = IF a.limit = Unset THEN DefaultLimit ELSE a.limit[1],
                      !.sopt = a.options]]
  /\ UNCHANGED <<conn, connectAttempts, storeVars, faulted, nextId, pluginVars>>

search(p) ==
  /\ Idle(p)
  /\ \E n \in Names, a \in SearchArgs :
       calls' = [calls EXCEPT ![p] =
                   [Issue(p, "search", n, "se_init") EXCEPT
                      !.vec = <<1, 1>>,
                      !.limit = IF a.limit = Unset THEN DefaultLimit ELSE a.limit[1],
                      !.sopt = a.options]]
  /\ UNCHANGED <<conn, connectAttempts, storeVars, faulted, nextId, pluginVars>>

getCollectionStats(p) ==
  /\ Idle(p)
  /\ \E n \in Names :
       calls' = [calls EXCEPT ![p] = Issue(p, "getCollectionStats", n, "gs_init")]
  /\ UNCHANGED <<conn, connectAttempts, storeVars, faulted, nextId, pluginVars>>

\* close() awaits nothing and does nothing
close(p) ==
  /\ Idle(p)
  /\ calls' = [calls EXCEPT ![p] = Return(Issue(p, "close", "", "done"), "ok")]
  /\ UNCHANGED <<conn, connectAttempts, storeVars, faulted, nextId, pluginVars>>

\* ------------------------------------------------------------ collectionExists
\* a variant whose lookup never finds the collection
existsNeverFound(raised) == FALSE

\* try { await collection.config.get(); return true } catch { return false }
existsResult(raised) == ~raised

\* Promise.all(docs.map((doc) => ai.embed(...))): one embed call per document,
\* all issued at once
RECURSIVE EmbedCalls(_, _, _)
EmbedCalls(c, docs, i) ==
  IF i > Len(docs) THEN c
  ELSE EmbedCalls(Log(c, Ev("embed", c.name, i)), docs, i + 1)

StartEmbeds(c) ==
  [EmbedCalls(c, c.docs, 1) EXCEPT
     !.pc = "ix_embed", !.pending = DOMAIN c.docs, !.emb = [i \in DOMAIN c.docs |-> << >>]]

\* createCollection returns: to its caller, or into the indexer's body
ReturnFromCreate(c) == IF c.op = "index" THEN StartEmbeds(c) ELSE Return(c, "ok")

\* createCollection: if (exists) return; else go on to collections.create
AfterExists(c, found) ==
  IF c.op = "collectionExists" THEN Return(c, IF found THEN "true" ELSE "false")
  ELSE IF found THEN ReturnFromCreate(c)
  ELSE [c EXCEPT !.pc = "cc_create"]

configGet(p) ==
  LET c == calls[p] IN
  /\ c.pc = "ce_lookup"
  /\ \E f \in BOOLEAN :
       /\ calls' = [calls EXCEPT ![p] =
            AfterExists(Log(c, Ev("config", c.name, 0)),
                        existsResult(StoreRaises("config", c.name, f)))]
       /\ faulted' = (faulted \/ f)
  /\ UNCHANGED <<conn, connectAttempts, storeVars, nextId, pluginVars>>

\* ------------------------------------------------------------ createCollection
\* the argument of this.client.collections.create
createRequest(c) ==
  [name |-> c.name, description |-> c.cfg.description, vectorizers |-> "none",
   properties |-> {<<"content", "text">>, <<"metadata", "text">>}]

collectionsCreate(p) ==
  LET c == calls[p]
      c1 == Log(c, Ev("create", c.name, createRequest(c)))
  IN
  /\ c.pc = "cc_create"
  /\ \E f \in BOOLEAN :
       /\ faulted' = (faulted \/ f)
       /\ IF StoreRaises("create", c.name, f)
          THEN /\ calls' = [calls EXCEPT ![p] =
                              Throw(c1, IF f THEN "err_store" ELSE "err_exists")]
               /\ UNCHANGED storeVars
          ELSE /\ calls' = [calls EXCEPT ![p] = ReturnFromCreate(c1)]
               /\ collections' = collections \cup {c.name}
               /\ objects' = [objects EXCEPT ![c.name] = << >>]
  /\ UNCHANGED <<conn, connectAttempts, nextId, pluginVars>>

\* ------------------------------------------------------------ insertObjects
\* objects.map(obj => ({...(obj.id && {id: obj.id}), properties, vectors: obj.vector}))
insertRequest(objs) ==
  [j \in DOMAIN objs |->
     [id |-> objs[j].id, properties |-> objs[j].properties, vectors |-> objs[j].vector]]

insertMany(p) ==
  LET c == calls[p]
      batch == insertRequest(c.objs)
      c1 == Log(c, Ev("insert", c.name, batch))
  IN
  /\ c.pc = "io_insert"
  /\ \E f \in BOOLEAN :
       /\ faulted' = (faulted \/ f)
       /\ IF StoreRaises("insert", c.name, f)
          THEN /\ calls' = [calls EXCEPT ![p] = Throw(c1, "err_store")]
               /\ UNCHANGED <<storeVars, nextId>>
          ELSE /\ calls' = [calls EXCEPT ![p] = Return(c1, "ok")]
               /\ objects' = [objects EXCEPT ![c.name] = StoreBatch(@, batch, nextId)]
               /\ nextId' = nextId + AutoIds(batch)
               /\ UNCHANGED collections
  /\ UNCHANGED <<conn, connectAttempts, pluginVars>>

\* ------------------------------------------------------------ search
\* a variant that tests the distance for truth, so that a cutoff of 0 is dropped
searchRequestTruthyDistance(c) ==
  [vector |-> c.vec, limit |-> c.limit, returnMetadata |-> {"distance"},
   distance |-> IF c.sopt.distance = Some(0) THEN Unset ELSE c.sopt.distance,
   filters |-> c.sopt.filters]

\* the argument of collection.query.nearVector: distance when it is not
\* undefined, filters when it is truthy (a filter is an object, so whenever set)
searchRequest(c) ==
  [vector |-> c.vec, limit |-> c.limit, returnMetadata |-> {"distance"},
   distance |-> c.sopt.distance, filters |-> c.sopt.filters]

\* the store: whether an object passes the request's cutoff and filter
Matches(o, req) ==
  /\ req.distance = Unset \/ Distance(req.vector, o.vectors) <= req.distance[1]
  /\ req.filters = Unset \/ o.properties.contentType = req.filters[1]

RECURSIVE InsertByDistance(_, _, _)
InsertByDistance(sorted, o, v) ==
  IF sorted = << >> THEN << o >>
  ELSE IF Distance(v, o.vectors) < Distance(v, Head(sorted).vectors)
       THEN << o >> \o sorted
       ELSE << Head(sorted) >> \o InsertByDistance(Tail(sorted), o, v)

RECURSIVE Nearest(_, _)
Nearest(objs, v) ==
  IF objs = << >> THEN << >>
  ELSE InsertByDistance(Nearest(Tail(objs), v), Head(objs), v)

Take(s, n) == IF Len(s) <= n THEN s ELSE SubSeq(s, 1, n)

\* the store's answer: the matching objects nearest first, at most limit of them,
\* each with the distance the request asked for
nearVectorResult(n, req) ==
  LET hits == Take(Nearest(SelectSeq(objects[n], LAMBDA o : Matches(o, req)), req.vector),
                   req.limit)
  IN [j \in DOMAIN hits |->
        [properties |-> hits[j].properties,
         metadata |-> [distance |-> Some(Distance(req.vector, hits[j].vectors))]]]

\* JSON.parse of a text that stringify could have written; anything else throws
IsObjectText(t) ==
  /\ Len(t) >= 2
  /\ Head(t) = "{"
  /\ t[Len(t)] = "}"
  /\ (Len(t) - 2) % 3 = 0
  /\ \A j \in 2..(Len(t) - 1) : ((j - 2) % 3 = 1) <=> (t[j] = ":")

\* the texts of the primitives null and 5
IsPrimitiveText(t) == t \in { <<"null">>, <<"5">> }

JSONparse(t) ==
  IF IsPrimitiveText(t) THEN Prim(t[1])
  ELSE Obj([m \in 1..((Len(t) - 2) \div 3) |-> << t[3 * m - 1], t[3 * m + 1] >>])

\* a variant that drops a metadata string it cannot parse
parseMetadataOrNone(properties) ==
  IF properties.metadata = << >> THEN NoMeta
  ELSE IF IsObjectText(properties.metadata) \/ IsPrimitiveText(properties.metadata)
       THEN JSONparse(properties.metadata)
       ELSE NoMeta

\* if (properties.metadata) { try { JSON.parse } catch { {metadata: raw} } }
parseMetadata(properties) ==
  IF properties.metadata = << >> THEN NoMeta
  ELSE IF IsObjectText(properties.metadata) \/ IsPrimitiveText(properties.metadata)
       THEN JSONparse(properties.metadata)
       ELSE Obj(<< <<"metadata", properties.metadata>> >>)

\* metadata._distance = ... on a truthy value that is no object: the assignment
\* throws a TypeError (the code is a module, so it runs in strict mode)
mappingThrows(obj) ==
  LET parsed == parseMetadata(obj.properties) IN
  obj.metadata.distance # Unset /\ parsed.def /\ parsed.prim # ""

\* results.objects.map((obj) => ...): one document per result object
toDocument(obj) ==
  LET properties == obj.properties
      parsed == parseMetadata(properties)
      metadata == IF obj.metadata.distance # Unset /\ parsed.def
                  THEN Obj(Append(parsed.kv, <<"_distance", obj.metadata.distance[1]>>))
                  ELSE parsed
  IN [data |-> properties.content, dataType |-> properties.contentType, metadata |-> metadata]

\* a store's answer that reports no distances
withoutDistance(result) ==
  [j \in DOMAIN result |-> [result[j] EXCEPT !.metadata.distance = Unset]]

\* the retriever's mapping of the result: its documents, or the error the mapping
\* of some object throws; hits keeps the store's answer for the properties
mapResult(c, result) ==
  IF \E j \in DOMAIN result : mappingThrows(result[j])
  THEN Throw([c EXCEPT !.hits = result], "err_type")
  ELSE [Return(c, "ok") EXCEPT
          !.out = [j \in DOMAIN result |-> toDocument(result[j])], !.hits = result]

\* a variant whose query takes the objects it returns out of the collection
nearVectorConsuming(p) ==
  LET c == calls[p]
      req == searchRequest(c)
      c1 == Log(c, Ev("search", c.name, req))
  IN
  /\ c.pc = "se_query"
  /\ \E f \in BOOLEAN, d \in BOOLEAN :
       LET result == IF d THEN nearVectorResult(c.name, req)
                     ELSE withoutDistance(nearVectorResult(c.name, req))
       IN
       /\ faulted' = (faulted \/ f)
       /\ IF StoreRaises("search", c.name, f)
          THEN /\ calls' = [calls EXCEPT ![p] = Throw(c1, "err_store")]
               /\ UNCHANGED objects
          ELSE /\ calls' = [calls EXCEPT ![p] =
                      IF c.op = "retrieve" THEN mapResult(c1, result)
                      ELSE [Return(c1, "ok") EXCEPT !.out = result, !.count = Len(result)]]
               /\ objects' = [objects EXCEPT ![c.name] =
                      SelectSeq(@, LAMBDA o :
                        \A j \in DOMAIN result : result[j].properties # o.properties)]
  /\ UNCHANGED <<conn, connectAttempts, collections, nextId, pluginVars>>

\* the store answers the query, reporting the distances asked for or none
nearVector(p) ==
  LET c == calls[p]
      req == searchRequest(c)
      c1 == Log(c, Ev("search", c.name, req))
  IN
  /\ c.pc = "se_query"
  /\ \E f \in BOOLEAN, d \in BOOLEAN :
       LET result == IF d THEN nearVectorResult(c.name, req)
                     ELSE withoutDistance(nearVectorResult(c.name, req))
       IN
       /\ faulted' = (faulted \/ f)
       /\ calls' = [calls EXCEPT ![p] =
            IF StoreRaises("search", c.name, f) THEN Throw(c1, "err_store")
            ELSE IF c.op = "retrieve" THEN mapResult(c1, result)
            ELSE [Return(c1, "ok") EXCEPT !.out = result, !.count = Len(result)]]
  /\ UNCHANGED <<conn, connectAttempts, storeVars, nextId, pluginVars>>

\* ------------------------------------------------------------ deleteObjects
\* a variant that catches the error of one id and goes on with the next
deleteByIdSwallowing(p) ==
  LET c == calls[p]
      id == c.ids[c.i]
      c1 == Log(c, Ev("deleteById", c.name, id))
  IN
  /\ c.pc = "do_delete"
  /\ \E f \in BOOLEAN :
       /\ faulted' = (faulted \/ f)
       /\ calls' = [calls EXCEPT ![p] =
              IF c.i = Len(c.ids) THEN Return(c1, "ok")
              ELSE [c1 EXCEPT !.i = c.i + 1]]
       /\ IF StoreRaises("deleteById", c.name, f)
          THEN UNCHANGED storeVars
          ELSE /\ objects' = [objects EXCEPT ![c.name] = Without(@, id)]
               /\ UNCHANGED collections
  /\ UNCHANGED <<conn, connectAttempts, nextId, pluginVars>>

\* for (const id of ids) { await collection.data.deleteById(id); }
deleteById(p) ==
  LET c == calls[p]
      id == c.ids[c.i]
      c1 == Log(c, Ev("deleteById", c.name, id))
  IN
  /\ c.pc = "do_delete"
  /\ \E f \in BOOLEAN :
       /\ faulted' = (faulted \/ f)
       /\ IF StoreRaises("deleteById", c.name, f)
          THEN /\ calls' = [calls EXCEPT ![p] = Throw(c1, "err_store")]
               /\ UNCHANGED storeVars
          ELSE /\ calls' = [calls EXCEPT ![p] =
                      IF c.i = Len(c.ids) THEN Return(c1, "ok")
                      ELSE [c1 EXCEPT !.i = c.i + 1]]
               /\ objects' = [objects EXCEPT ![c.name] = Without(@, id)]
               /\ UNCHANGED collections
  /\ UNCHANGED <<conn, connectAttempts, nextId, pluginVars>>

\* ------------------------------------------------------------ deleteCollection
collectionsDelete(p) ==
  LET c == calls[p]
      c1 == Log(c, Ev("delete", c.name, 0))
  IN
  /\ c.pc = "dc_delete"
  /\ \E f \in BOOLEAN :
       /\ faulted' = (faulted \/ f)
       /\ IF StoreRaises("delete", c.name, f)
          THEN /\ calls' = [calls EXCEPT ![p] = Throw(c1, "err_store")]
               /\ UNCHANGED storeVars
          ELSE /\ calls' = [calls EXCEPT ![p] = Return(c1, "ok")]
               /\ collections' = collections \ {c.name}
               /\ objects' = [objects EXCEPT ![c.name] = << >>]
  /\ UNCHANGED <<conn, connectAttempts, nextId, pluginVars>>

\* ------------------------------------------------------------ getCollectionStats
statsConfigGet(p) ==
  LET c == calls[p]
      c1 == Log(c, Ev("config", c.name, 0))
  IN
  /\ c.pc = "gs_config"
  /\ \E f \in BOOLEAN :
       /\ faulted' = (faulted \/ f)
       /\ calls' = [calls EXCEPT ![p] =
            IF StoreRaises("config", c.name, f) THEN Throw(c1, "err_store")
            ELSE [c1 EXCEPT !.pc = "gs_aggregate"]]
  /\ UNCHANGED <<conn, connectAttempts, storeVars, nextId, pluginVars>>

aggregateOverAll(p) ==
  LET c == calls[p]
      c1 == Log(c, Ev("aggregate", c.name, 0))
  IN
  /\ c.pc = "gs_aggregate"
  /\ \E f \in BOOLEAN :
       /\ faulted' = (faulted \/ f)
       /\ calls' = [calls EXCEPT ![p] =
            IF StoreRaises("aggregate", c.name, f) THEN Throw(c1, "err_store")
            ELSE [Return(c1, "ok") EXCEPT !.count = Len(objects[c.name])]]
  /\ UNCHANGED <<conn, connectAttempts, storeVars, nextId, pluginVars>>

\* ------------------------------------------------------------ plugin
Entry(n, e, cm) == [collectionName |-> n, embedder |-> e, createCollectionIfMissing |-> cm]
PluginConfigs ==
  { << Entry("A", TRUE, "unset"), Entry("B", TRUE, "false") >>,
    << Entry("B", TRUE, "true") >>,
    << Entry("A", TRUE, "false"), Entry("B", FALSE, "unset") >>,
    << Entry("B", FALSE, "unset"), Entry("A", TRUE, "unset") >> }

InitPlugin ==
  /\ conn = "none"
  /\ connectAttempts = 0
  /\ collections = {"A"}
  /\ objects = [n \in Names |-> << >>]
  /\ faulted = FALSE
  /\ nextId = 0
  /\ calls = [p \in Procs |-> NoCall]
  /\ config \in PluginConfigs
  /\ pluginState = "new"
  /\ setupError = ""
  /\ indexers = {}
  /\ retrievers = {}

\* a variant whose loop does not check the embedder
ReachedAll(cfg) == DOMAIN cfg

\* the entries the loop reaches: all of them, or those before the first one
\* that has no embedder, where it throws
Reached(cfg) ==
  LET bad == { i \in DOMAIN cfg : ~cfg[i].embedder } IN
  IF bad = {} THEN DOMAIN cfg
  ELSE { i \in DOMAIN cfg : \A b \in bad : i < b }

\* the plugin's initializer: new WeaviateClientWrapper, then per collection the
\* embedder check, weaviateRetriever and weaviateIndexer
weaviate ==
  /\ pluginState = "new"
  /\ conn = "none"
  /\ initialize
  /\ retrievers' = retrievers \cup { config[i].collectionName : i \in Reached(config) }
  /\ indexers' = indexers \cup { config[i].collectionName : i \in Reached(config) }
  /\ pluginState' = IF Reached(config) = DOMAIN config THEN "ok" ELSE "failed"
  /\ setupError' = IF Reached(config) = DOMAIN config THEN ""
                   ELSE config[Cardinality(Reached(config)) + 1].collectionName
  /\ UNCHANGED <<storeVars, faulted, nextId, calls, config>>

\* ------------------------------------------------------------ indexer
\* a variant that tests the option for truth, so that an unset option disables
\* creation
createIfTruthy(c) == c.opt = "true"

\* options?.createCollectionIfMissing !== false
createIfMissing(c) == c.opt # "false"

\* the indexer action, up to its first await
index(p) ==
  /\ Idle(p)
  /\ pluginState = "ok"
  /\ \E n \in indexers, docs \in DocLists, o \in IndexerOptions :
       LET c == [Issue(p, "index", n, "cc_init") EXCEPT
                   !.docs = docs, !.opt = o.create, !.cfg = o.cfg]
       IN calls' = [calls EXCEPT ![p] = IF createIfMissing(c) THEN c ELSE StartEmbeds(c)]
  /\ UNCHANGED <<conn, connectAttempts, storeVars, faulted, nextId, pluginVars>>

\* ai.embed for document i resolves, with one embedding or more
embedResolves(p) ==
  LET c == calls[p] IN
  /\ c.pc = "ix_embed"
  /\ \E i \in c.pending :
       calls' = [calls EXCEPT ![p] =
         [c EXCEPT !.pending = @ \ {i}, !.emb[i] = Embeddings(c.docs[i]),
                   !.arrival = Append(@, i)]]
  /\ UNCHANGED <<conn, connectAttempts, storeVars, faulted, nextId, pluginVars>>

\* a variant that takes a rejected embed call for a document without embeddings
onEmbedRejectedSkipped(c) == [c EXCEPT !.pending = {}]

\* await Promise.all(...) with a rejected embed call: the indexer throws its error
onEmbedRejected(c) == Throw(c, "err_embed")

\* ai.embed for some document rejects
embedRejects(p) ==
  LET c == calls[p] IN
  /\ c.pc = "ix_embed"
  /\ c.pending # {}
  /\ calls' = [calls EXCEPT ![p] = onEmbedRejected([c EXCEPT !.rejected = TRUE])]
  /\ UNCHANGED <<conn, connectAttempts, storeVars, faulted, nextId, pluginVars>>

\* a variant that generates one identifier per document and gives it to each of
\* the document's objects
docObjectsSharedId(doc, docEmbeddings, fresh) ==
  LET embeddingDocs == getEmbeddingDocuments(doc, docEmbeddings) IN
  [j \in DOMAIN docEmbeddings |->
     [id |-> fresh + 1,
      properties |->
        [content |-> embeddingDocs[j].data,
         contentType |-> OrEmptyString(embeddingDocs[j].dataType),
         metadata |-> JSONstringify(OrEmptyObject(embeddingDocs[j].metadata))],
      vector |-> docEmbeddings[j].embedding]]

\* docEmbeddings.map((docEmbedding, j) => ({id: uuidv4(), properties, vector}))
docObjects(doc, docEmbeddings, fresh) ==
  LET embeddingDocs == getEmbeddingDocuments(doc, docEmbeddings) IN
  [j \in DOMAIN docEmbeddings |->
     [id |-> fresh + j,
      properties |->
        [content |-> embeddingDocs[j].data,
         contentType |-> OrEmptyString(embeddingDocs[j].dataType),
         metadata |-> JSONstringify(OrEmptyObject(embeddingDocs[j].metadata))],
      vector |-> docEmbeddings[j].embedding]]

RECURSIVE Flat(_, _, _, _)
\* embeddings.map((value, i) => ...).flat()
Flat(docs, embeddings, i, fresh) ==
  IF i > Len(docs) THEN << >>
  ELSE docObjects(docs[i], embeddings[i], fresh)
         \o Flat(docs, embeddings, i + 1, fresh + Len(embeddings[i]))

\* a variant that collects the embed calls' results in the order they resolved
resultsByArrival(c) == [k \in DOMAIN c.arrival |-> c.emb[c.arrival[k]]]

\* what await Promise.all(...) gives: the embed calls' results, the i-th that of
\* the i-th document
promiseAll(c) == c.emb

\* Promise.all resolves; the objects are built and insertObjects is called
prepareObjects(p) ==
  LET c == calls[p]
      objs == Flat(c.docs, promiseAll(c), 1, nextId)
  IN
  /\ c.pc = "ix_embed"
  /\ c.pending = {}
  /\ calls' = [calls EXCEPT ![p] = [c EXCEPT !.objs = objs, !.pc = "io_init"]]
  /\ nextId' = nextId + Len(objs)
  /\ UNCHANGED <<conn, connectAttempts, storeVars, faulted, pluginVars>>

\* ------------------------------------------------------------ retriever
\* the retriever action, up to its first await: ai.embed of the query
retrieve(p) ==
  /\ Idle(p)
  /\ pluginState = "ok"
  /\ \E n \in retrievers, q \in DocPool, o \in RetrieverOptions :
       calls' = [calls EXCEPT ![p] =
         Log([Issue(p, "retrieve", n, "rt_embed") EXCEPT !.docs = << q >>, !.ropt = o],
             Ev("embed", n, 1))]
  /\ UNCHANGED <<conn, connectAttempts, storeVars, faulted, nextId, pluginVars>>

\* a variant that always asks for the default number of results
callSearchDefaultLimit(c, queryEmbeddings) ==
  [c EXCEPT !.pc = "se_init",
            !.vec = queryEmbeddings[1].embedding,
            !.limit = DefaultLimit,
            !.sopt = [distance |-> c.ropt.distance, filters |-> c.ropt.filters]]

\* client.search(collectionName, queryEmbeddings[0].embedding, options.k ?? 10,
\*               {distance: options.distance, filters: options.filters})
callSearch(c, queryEmbeddings) ==
  [c EXCEPT !.pc = "se_init",
            !.vec = queryEmbeddings[1].embedding,
            !.limit = IF c.ropt.k = Unset THEN DefaultLimit ELSE c.ropt.k[1],
            !.sopt = [distance |-> c.ropt.distance, filters |-> c.ropt.filters]]

\* ai.embed of the query resolves
queryEmbedResolves(p) ==
  LET c == calls[p] IN
  /\ c.pc = "rt_embed"
  /\ calls' = [calls EXCEPT ![p] = callSearch(c, Embeddings(c.docs[1]))]
  /\ UNCHANGED <<conn, connectAttempts, storeVars, faulted, nextId, pluginVars>>

\* a variant that swallows the embedder's error and searches with a zero vector
onQueryEmbedSwallowed(c) == callSearch(c, << [embedding |-> <<0, 0>>] >>)

\* await ai.embed(...) rejects: the retriever throws its error
onQueryEmbedRejected(c) == Throw(c, "err_embed")

\* ai.embed of the query rejects
queryEmbedRejects(p) ==
  LET c == calls[p] IN
  /\ c.pc = "rt_embed"
  /\ calls' = [calls EXCEPT ![p] = onQueryEmbedRejected([c EXCEPT !.rejected = TRUE])]
  /\ UNCHANGED <<conn, connectAttempts, storeVars, faulted, nextId, pluginVars>>

\* objects as the indexer stores them, and objects written by others
Stored(id, doc, j, metadata) ==
  [id |-> id,
   properties |-> [content |-> <<doc.text, j>>,
                   contentType |-> OrEmptyString(doc.dataType),
                   metadata |-> metadata],
   vectors |-> <<Key(doc.text), j>>]
StoredLists ==
  { << >>,
    << Stored(1, D1, 1, JSONstringify(D1.metadata)), Stored(2, D2, 1, <<"{", "}">>) >>,
    << Stored(1, D2, 1, <<"not json">>), Stored(2, D1, 2, << >>),
       Stored(3, D1, 1, JSONstringify(D1.metadata)) >>,
    << Stored(1, D1, 1, <<"null">>), Stored(2, D2, 1, <<"5">>) >>,
    [j \in 1..(DefaultLimit + 1) |-> Stored(j, D1, j, <<"{", "}">>)] }

InitRetrieve ==
  /\ conn = "none"
  /\ connectAttempts = 0
  /\ collections = {"A"}
  /\ \E l \in StoredLists : objects = [n \in Names |-> IF n = "A" THEN l ELSE << >>]
  /\ faulted = FALSE
  /\ nextId = DefaultLimit + 1
  /\ calls = [p \in Procs |-> NoCall]
  /\ config \in PluginConfigs
  /\ pluginState = "new"
  /\ setupError = ""
  /\ indexers = {}
  /\ retrievers = {}

\* ------------------------------------------------------------ specification
WrapperCall(p) ==
  \/ getClient(p)
  \/ collectionExists(p)
  \/ createCollection(p)
  \/ insertObjects(p)
  \/ search(p)
  \/ deleteObjects(p)
  \/ deleteCollection(p)
  \/ getCollectionStats(p)
  \/ close(p)

WrapperStep(p) ==
  \/ ensureInitialized(p)
  \/ configGet(p)
  \/ collectionsCreate(p)
  \/ insertMany(p)
  \/ nearVector(p)
  \/ deleteById(p)
  \/ collectionsDelete(p)
  \/ statsConfigGet(p)
  \/ aggregateOverAll(p)

Next ==
  \/ WeaviateClientWrapper
  \/ connectSettles
  \/ \E p \in Procs : WrapperCall(p) \/ WrapperStep(p)

Spec == Init /\ [][Next]_vars

\* the plugin and concurrent indexing calls
NextIndex ==
  \/ weaviate
  \/ connectSettles
  \/ \E p \in Procs :
       \/ index(p)
       \/ ensureInitialized(p)
       \/ configGet(p)
       \/ collectionsCreate(p)
       \/ embedResolves(p)
       \/ embedRejects(p)
       \/ prepareObjects(p)
       \/ insertMany(p)

SpecIndex == InitPlugin /\ [][NextIndex]_vars

\* the plugin and one indexing call on its own
FirstCall == CHOOSE p \in Procs : \A q \in Procs : p <= q
NextOneIndex ==
  \/ weaviate
  \/ connectSettles
  \/ index(FirstCall)
  \/ ensureInitialized(FirstCall)
  \/ configGet(FirstCall)
  \/ collectionsCreate(FirstCall)
  \/ embedResolves(FirstCall)
  \/ embedRejects(FirstCall)
  \/ prepareObjects(FirstCall)
  \/ insertMany(FirstCall)

SpecOneIndex == InitPlugin /\ [][NextOneIndex]_vars

\* the plugin and concurrent retrieval calls
NextRetrieve ==
  \/ weaviate
  \/ connectSettles
  \/ \E p \in Procs :
       \/ retrieve(p)
       \/ queryEmbedResolves(p)
       \/ queryEmbedRejects(p)
       \/ ensureInitialized(p)
       \/ nearVector(p)

SpecRetrieve == InitRetrieve /\ [][NextRetrieve]_vars

\* the plugin and retrieval calls made one after the other: a call is issued
\* when every call before it has ended
NextRetrievals ==
  \/ weaviate
  \/ connectSettles
  \/ \E p \in Procs :
       \/ (\A q \in Procs : calls[q].pc \in {"idle", "done"}) /\ retrieve(p)
       \/ queryEmbedResolves(p)
       \/ queryEmbedRejects(p)
       \/ ensureInitialized(p)
       \/ nearVector(p)

SpecRetrievals == InitRetrieve /\ [][NextRetrievals]_vars

\* the plugin and one retrieval call on its own
NextOneRetrieve ==
  \/ weaviate
  \/ connectSettles
  \/ retrieve(FirstCall)
  \/ queryEmbedResolves(FirstCall)
  \/ queryEmbedRejects(FirstCall)
  \/ ensureInitialized(FirstCall)
  \/ nearVector(FirstCall)

SpecOneRetrieve == InitRetrieve /\ [][NextOneRetrieve]_vars

\* the plugin, one indexing call and one retrieval call, over a store that starts
\* without objects
SecondCall == FirstCall + 1
NextRoundTrip ==
  \/ weaviate
  \/ connectSettles
  \/ index(FirstCall)
  \/ ensureInitialized(FirstCall)
  \/ configGet(FirstCall)
  \/ collectionsCreate(FirstCall)
  \/ embedResolves(FirstCall)
  \/ embedRejects(FirstCall)
  \/ prepareObjects(FirstCall)
  \/ insertMany(FirstCall)
  \/ retrieve(SecondCall)
  \/ queryEmbedResolves(SecondCall)
  \/ queryEmbedRejects(SecondCall)
  \/ ensureInitialized(SecondCall)
  \/ nearVector(SecondCall)

SpecRoundTrip == InitPlugin /\ [][NextRoundTrip]_vars

\* ------------------------------------------------------------ properties
Kinds(c, ks) == { j \in DOMAIN c.log : c.log[j].k \in ks }
Requests(c, k) == Cardinality(Kinds(c, {k}))
Values == {"ok", "true", "false"}

\* C1: the calls issued on a wrapper while its connection attempt is in flight
\* all wait on the one attempt the constructor made: there is exactly one connect
\* call, whenever the calls are issued and however many; while it is in flight
\* every call issued waits, having sent the store nothing; once it has failed
\* every call has sent the store nothing and ends with the connection error; once
\* it has succeeded no call fails with the connection error and every call still
\* waiting is free to go on.
C1_SingleConnectionAttempt ==
  /\ conn # "none" => connectAttempts = 1
  /\ \A p \in Procs :
       LET c == calls[p] IN
       (c.op \notin {"none", "close"}) =>
         /\ conn = "pending" => (c.pc \in InitPcs /\ c.log = << >> /\ c.res = "none")
         /\ conn = "failed" =>
              /\ c.log = << >>
              /\ c.pc \in InitPcs \cup {"done"}
              /\ c.pc = "done" => c.res = "err_conn"
              /\ c.pc \in InitPcs => ENABLED ensureInitialized(p)
         /\ conn = "ok" =>
              /\ c.res # "err_conn"
              /\ c.pc \in InitPcs => ENABLED ensureInitialized(p)

\* every call has been issued, each of another operation, while the one attempt
\* is in flight, and all of them wait on it
C1_Witness ==
  /\ conn = "pending"
  /\ connectAttempts = 1
  /\ \A p \in Procs : calls[p].pc \in InitPcs
  /\ \A p, q \in Procs : p # q => calls[p].op # calls[q].op

\* some call other than p and q was made on collection n
OtherCallOn(n, p, q) ==
  \E r \in Procs \ {p, q} : calls[r].op # "none" /\ calls[r].name = n

\* C2: of two createCollection calls with the same config made one after the
\* other (the second issued after the first returned), with no other call on that
\* collection and a store that answers every request, the first sends one create
\* request when the collection was missing and none when it was there, the second
\* finds the collection, sends no create request and does not raise, and the
\* collection is in the store.
C2_CreateTwiceCreatesOnce ==
  \A p, q \in Procs :
    LET a == calls[p]
        b == calls[q]
    IN
    ( /\ a.op = "createCollection" /\ b.op = "createCollection"
      /\ a.name = b.name /\ a.cfg = b.cfg
      /\ p \in b.prior
      /\ a.res = "ok"
      /\ b.pc = "done"
      /\ ~faulted
      /\ ~OtherCallOn(a.name, p, q) )
    => /\ b.res = "ok"
       /\ Requests(b, "create") = 0
       /\ Requests(b, "config") = 1
       /\ Requests(a, "create") = (IF a.had THEN 0 ELSE 1)
       /\ a.name \in collections

\* two createCollection calls in sequence on a collection that was missing
C2_Witness ==
  \E p, q \in Procs :
    /\ calls[p].op = "createCollection" /\ calls[q].op = "createCollection"
    /\ calls[p].name = calls[q].name /\ calls[p].cfg = calls[q].cfg
    /\ p \in calls[q].prior
    /\ ~calls[p].had
    /\ calls[p].res = "ok" /\ calls[q].res = "ok"
    /\ Requests(calls[p], "create") = 1
    /\ ~faulted

CreatesFor(n) ==
  Cardinality({ pj \in Procs \X (1..4) :
                  /\ pj[2] \in DOMAIN calls[pj[1]].log
                  /\ calls[pj[1]].log[pj[2]].k = "create"
                  /\ calls[pj[1]].log[pj[2]].n = n })

\* C3: whatever the interleaving of concurrent indexing calls that create their
\* collection when it is missing, with a store that raises only for what it is
\* asked, at most one create request per collection name is sent and no indexing
\* call fails because the collection exists already.
C3_CreatedAtMostOnce ==
  ~faulted =>
    /\ \A n \in Names : CreatesFor(n) <= 1
    /\ \A p \in Procs : calls[p].op = "index" => calls[p].res # "err_exists"

\* C4: a collectionExists call never throws: it returns true or false, whatever
\* failed underneath, the connection attempt included.
C4_ExistsNeverThrows ==
  \A p \in Procs :
    (calls[p].op = "collectionExists" /\ calls[p].pc = "done")
      => calls[p].res \in {"true", "false"}

\* the insertMany request of a call, if it sent one
Batch(c) == c.log[CHOOSE j \in Kinds(c, {"insert"}) : TRUE].x

\* object o is the one built from part m of the document at position i
BuiltFrom(o, c, i, m) ==
  LET sub == getEmbeddingDocuments(c.docs[i], c.emb[i])[m] IN
  /\ o.properties.content = sub.data
  /\ o.properties.contentType = OrEmptyString(sub.dataType)
  /\ IsObjectText(o.properties.metadata)
  /\ JSONparse(o.properties.metadata).kv = sub.metadata.kv
  /\ o.vectors = c.emb[i][m].embedding

\* C5: in the batch an indexing call inserts, the objects built from one document
\* come in the order of the embeddings the embedder returned for it, each pairing
\* a part's content, type and metadata with that part's vector, in whatever order
\* the embed calls resolved.
C5_ChunkOrderKept ==
  \A p \in Procs :
    LET c == calls[p] IN
    (c.op = "index" /\ Kinds(c, {"insert"}) # {}) =>
      \A i \in DOMAIN c.docs :
        \E f \in [DOMAIN c.emb[i] -> DOMAIN Batch(c)] :
          /\ \A m, m2 \in DOMAIN f : m < m2 => f[m] < f[m2]
          /\ \A m \in DOMAIN f : BuiltFrom(Batch(c)[f[m]], c, i, m)

\* a batch of a two-part document and another, whose embed calls resolved in the
\* reverse of the documents' order
C5_Witness ==
  \E p \in Procs :
    /\ calls[p].op = "index" /\ calls[p].res = "ok"
    /\ calls[p].docs = << D1, D2 >>
    /\ calls[p].arrival = << 2, 1 >>
    /\ Len(Batch(calls[p])) = MaxChunks + 1

RECURSIVE SumLen(_)
SumLen(ss) == IF ss = << >> THEN 0 ELSE Len(Head(ss)) + SumLen(Tail(ss))

Vectors == { <<a, b>> : a \in {1, 2}, b \in 1..MaxChunks }

\* C6: an indexing call that succeeds has made exactly one insertObjects call,
\* whose batch holds one object per embedding returned, each with an identifier
\* of its own that no object had before and with one vector.
C6_OneBatchOneObjectPerEmbedding ==
  \A p \in Procs :
    LET c == calls[p] IN
    (c.op = "index" /\ c.res = "ok") =>
      /\ Requests(c, "insert") = 1
      /\ Len(Batch(c)) = SumLen(c.emb)
      /\ \A j \in DOMAIN Batch(c) :
           /\ Batch(c)[j].id # NoId
           /\ Batch(c)[j].vectors \in Vectors
           /\ \A j2 \in DOMAIN Batch(c) : j # j2 => Batch(c)[j].id # Batch(c)[j2].id
      /\ \A j \in DOMAIN Batch(c) : Batch(c)[j].id \in StoredIds(c.name)
      /\ Len(objects[c.name]) = Len(Batch(c))

\* a successful call that indexed two documents as three objects
C6_Witness ==
  \E p \in Procs :
    /\ calls[p].op = "index" /\ calls[p].res = "ok"
    /\ Len(calls[p].docs) = 2
    /\ Len(Batch(calls[p])) > Len(calls[p].docs)

Configured(n, v) ==
  \E i \in DOMAIN config :
    config[i].collectionName = n /\ config[i].createCollectionIfMissing = v

\* C8: an indexing call that passes no option of its own, on a collection the
\* plugin configures with createCollectionIfMissing: false, does not create the
\* collection: it sends no existence lookup and no create request.
C8_ConfigDisablesCreation ==
  \A p \in Procs :
    LET c == calls[p] IN
    (c.op = "index" /\ c.opt = "unset" /\ Configured(c.name, "false"))
      => Kinds(c, {"config", "create"}) = {}

\* C9: a create request declares the properties content, contentType and
\* metadata, all text, and no vectorizer, whatever properties the config passed.
C9_FixedSchema ==
  \A p \in Procs :
    \A j \in Kinds(calls[p], {"create"}) :
      /\ calls[p].log[j].x.properties =
           {<<"content", "text">>, <<"contentType", "text">>, <<"metadata", "text">>}
      /\ calls[p].log[j].x.vectorizers = "none"

\* C10: a retrieval call whose embed call rejects fails with the embedder's
\* error, returns no documents and sends the store no search request.
C10_EmbedFailureStopsRetrieval ==
  \A p \in Procs :
    LET c == calls[p] IN
    (c.op = "retrieve" /\ c.rejected) =>
      /\ c.pc = "done"
      /\ c.res = "err_embed"
      /\ c.out = << >>
      /\ Kinds(c, StoreKinds) = {}

\* the embedder rejected the query of a retrieval call on a collection that
\* holds objects, over a connection that is up
C10_Witness ==
  \E p \in Procs :
    /\ calls[p].op = "retrieve" /\ calls[p].rejected /\ calls[p].pc = "done"
    /\ conn = "ok"
    /\ calls[p].name \in collections
    /\ Len(objects[calls[p].name]) > 1

\* ------------------------------------------------------------ result mapping
\* the members of a metadata value other than the key k
RECURSIVE DropKey(_, _)
DropKey(kv, k) ==
  IF kv = << >> THEN << >>
  ELSE IF Head(kv)[1] = k THEN DropKey(Tail(kv), k)
  ELSE << Head(kv) >> \o DropKey(Tail(kv), k)

HasKey(v, k) == \E m \in DOMAIN v.kv : v.kv[m][1] = k
ValueOf(v, k) == v.kv[CHOOSE m \in DOMAIN v.kv : v.kv[m][1] = k][2]

\* a stored metadata property that is a non-empty string and no JSON text
Malformed(o) ==
  /\ o.properties.metadata # << >>
  /\ ~IsObjectText(o.properties.metadata)
  /\ ~IsPrimitiveText(o.properties.metadata)

\* the retrieval calls whose search the store answered
Mapped(c) == c.op = "retrieve" /\ c.pc = "done" /\ c.res \in {"ok", "err_type"}

\* C11 (as stated): the document of a result object whose stored metadata is no
\* JSON has exactly the metadata {metadata: <the raw string>}.
C11_MalformedMetadataExact ==
  \A p \in Procs :
    LET c == calls[p] IN
    (Mapped(c) /\ c.res = "ok") =>
      \A j \in DOMAIN c.hits :
        Malformed(c.hits[j]) =>
          c.out[j].metadata = Obj(<< <<"metadata", c.hits[j].properties.metadata>> >>)

\* C11 (amended): a result object whose stored metadata is no JSON does not make
\* the retrieval call raise, and its document's metadata is {metadata: <the raw
\* string>} with the key _distance added exactly when the store reported a
\* distance for it; the other objects of the response are mapped as usual: one
\* document per object, in order, with the object's content and type, and the
\* members of a stored JSON object as metadata.
C11_MalformedMetadataWrapped ==
  \A p \in Procs :
    LET c == calls[p] IN
    Mapped(c) =>
      /\ c.res = "err_type" =>
           \E j \in DOMAIN c.hits : ~Malformed(c.hits[j]) /\ mappingThrows(c.hits[j])
      /\ \A j \in DOMAIN c.hits : Malformed(c.hits[j]) => ~mappingThrows(c.hits[j])
      /\ c.res = "ok" =>
           /\ Len(c.out) = Len(c.hits)
           /\ \A j \in DOMAIN c.hits :
                LET o == c.hits[j]
                    doc == c.out[j]
                IN
                /\ doc.data = o.properties.content
                /\ doc.dataType = o.properties.contentType
                /\ Malformed(o) =>
                     /\ doc.metadata.def
                     /\ DropKey(doc.metadata.kv, "_distance")
                          = << <<"metadata", o.properties.metadata>> >>
                     /\ HasKey(doc.metadata, "_distance") <=> (o.metadata.distance # Unset)
                     /\ HasKey(doc.metadata, "_distance") =>
                          ValueOf(doc.metadata, "_distance") = o.metadata.distance[1]
                /\ IsObjectText(o.properties.metadata) =>
                     DropKey(doc.metadata.kv, "_distance")
                       = [m \in 1..((Len(o.properties.metadata) - 2) \div 3) |->
                            << o.properties.metadata[3 * m - 1],
                               o.properties.metadata[3 * m + 1] >>]

\* a response that holds an object with the metadata "not json" next to one with
\* a JSON object, mapped with the distances the store reported
C11_Witness ==
  \E p \in Procs :
    LET c == calls[p] IN
    /\ Mapped(c) /\ c.res = "ok"
    /\ \E j, j2 \in DOMAIN c.hits :
         /\ Malformed(c.hits[j]) /\ c.hits[j].metadata.distance # Unset
         /\ HasKey(c.out[j].metadata, "_distance")
         /\ IsObjectText(c.hits[j2].properties.metadata)
         /\ HasKey(c.out[j2].metadata, "source")

\* the document of the pool a retrieved document was built from
SourceOf(doc) == CHOOSE d \in DocPool : d.text = doc.data[1]

\* C12 (as stated): a retrieved document's metadata, without the key _distance,
\* equals the metadata of the document it was indexed from, also when that
\* document has none.
C12_MetadataRoundTripExact ==
  \A p \in Procs :
    LET c == calls[p] IN
    (Mapped(c) /\ c.res = "ok") =>
      \A j \in DOMAIN c.out :
        LET m == c.out[j].metadata IN
        (IF m.def /\ m.prim = "" THEN Obj(DropKey(m.kv, "_distance")) ELSE m)
          = SourceOf(c.out[j]).metadata

\* C12 (amended): a retrieved document's metadata is an object whose members,
\* without the key _distance, are those of the metadata of the document it was
\* indexed from, and none when that document had no metadata: the round trip
\* turns absent metadata into the empty object.
C12_MetadataRoundTrip ==
  \A p \in Procs :
    LET c == calls[p] IN
    (Mapped(c) /\ c.res = "ok") =>
      \A j \in DOMAIN c.out :
        LET m == c.out[j].metadata
            src == SourceOf(c.out[j]).metadata
        IN
        /\ m.def /\ m.prim = ""
        /\ DropKey(m.kv, "_distance") = (IF src.def THEN src.kv ELSE << >>)

\* both documents of the pool, one with metadata and one without, indexed and
\* retrieved again
C12_Witness ==
  \E p \in Procs :
    LET c == calls[p] IN
    /\ Mapped(c) /\ c.res = "ok"
    /\ \E j, j2 \in DOMAIN c.out :
         /\ SourceOf(c.out[j]) = D1 /\ HasKey(c.out[j].metadata, "source")
         /\ SourceOf(c.out[j2]) = D2
         /\ HasKey(c.out[j].metadata, "_distance")

\* the nearest-vector request of a call, if it sent one
Query(c) == c.log[CHOOSE j \in Kinds(c, {"search"}) : TRUE].x

\* C13: the nearest-vector request of a retrieval call carries the call's distance
\* option, the value 0 included, and its filters option, each exactly when the
\* call set it; and with a cutoff d set no object of the store's answer and no
\* document returned has a reported distance above d.
C13_CutoffAndFiltersPassedOn ==
  \A p \in Procs :
    LET c == calls[p] IN
    (c.op = "retrieve" /\ Kinds(c, {"search"}) # {}) =>
      /\ Requests(c, "search") = 1
      /\ Query(c).distance = c.ropt.distance
      /\ Query(c).filters = c.ropt.filters
      /\ c.ropt.distance # Unset =>
           /\ \A j \in DOMAIN c.hits :
                c.hits[j].metadata.distance # Unset
                  => c.hits[j].metadata.distance[1] <= c.ropt.distance[1]
           /\ \A j \in DOMAIN c.out :
                (c.out[j].metadata.def /\ HasKey(c.out[j].metadata, "_distance"))
                  => ValueOf(c.out[j].metadata, "_distance") <= c.ropt.distance[1]

\* a retrieval with the cutoff 0 that returned a document, from a collection that
\* also holds objects farther away
C13_Witness ==
  \E p \in Procs :
    LET c == calls[p] IN
    /\ c.op = "retrieve" /\ c.res = "ok"
    /\ c.ropt.distance = Some(0)
    /\ Query(c).distance = Some(0)
    /\ Len(c.out) > 0
    /\ Len(objects[c.name]) > Len(c.out)
    /\ \E j \in DOMAIN c.out : HasKey(c.out[j].metadata, "_distance")

\* the objects of collection n that pass the cutoff and the filter of a request
Matching(n, req) == { j \in DOMAIN objects[n] : Matches(objects[n][j], req) }
Min(a, b) == IF a <= b THEN a ELSE b

\* C14: a retrieval call asks the store for k results, 10 when k is unset, and
\* when the store answers it returns as many documents as the answer holds, which
\* is the smaller of k and the number of matching objects, the i-th document
\* built from the i-th object of the answer, the answer being nearest first; a k
\* above the number of matching objects raises nothing.
C14_CountAndOrderKept ==
  \A p \in Procs :
    LET c == calls[p] IN
    (c.op = "retrieve" /\ Kinds(c, {"search"}) # {}) =>
      /\ Query(c).limit = (IF c.ropt.k = Unset THEN 10 ELSE c.ropt.k[1])
      /\ c.res = "err_type" =>
           \E j \in DOMAIN c.hits : IsPrimitiveText(c.hits[j].properties.metadata)
      /\ c.res = "ok" =>
           /\ Len(c.hits) = Min(Query(c).limit, Cardinality(Matching(c.name, Query(c))))
           /\ Len(c.out) = Len(c.hits)
           /\ \A j \in DOMAIN c.out :
                /\ c.out[j].data = c.hits[j].properties.content
                /\ c.out[j].dataType = c.hits[j].properties.contentType
           /\ \A j, j2 \in DOMAIN c.hits :
                (j < j2 /\ c.hits[j].metadata.distance # Unset)
                  => c.hits[j].metadata.distance[1] <= c.hits[j2].metadata.distance[1]

\* a retrieval with k = 5 from a collection that holds more matching objects than
\* that: five documents, the nearest first
C14_Witness ==
  \E p \in Procs :
    LET c == calls[p] IN
    /\ c.op = "retrieve" /\ c.res = "ok"
    /\ c.ropt.k = Some(5)
    /\ Cardinality(Matching(c.name, Query(c))) > 5
    /\ Len(c.out) = 5
    /\ c.hits[1].metadata.distance # Unset
    /\ c.hits[1].metadata.distance[1] < c.hits[5].metadata.distance[1]

\* ------------------------------------------------------------ plugin setup
\* the entries of the configuration that have no embedder
NoEmbedder == { i \in DOMAIN config : ~config[i].embedder }
ConfiguredNames == { config[i].collectionName : i \in DOMAIN config }

C16_AllFailAfterFailure ==
  \A p \in Procs :
    (calls[p].late /\ calls[p].pc = "done") => calls[p].res = "err_conn"

\* C16 (amended): once the one connection attempt has failed there is never
\* another: the wrapper stays failed with one attempt made; every operation other
\* than close issued afterwards sends the store nothing and ends with the
\* connection error, and close, which awaits nothing, returns.
C16_FailedConnectionIsFinal ==
  conn = "failed" =>
    /\ connectAttempts = 1
    /\ ~ENABLED connectSettles
    /\ ~ENABLED WeaviateClientWrapper
    /\ \A p \in Procs :
         LET c == calls[p] IN
         c.late =>
           /\ c.log = << >>
           /\ c.op # "close" =>
                /\ c.pc \in InitPcs \cup {"done"}
                /\ c.pc = "done" => c.res = "err_conn"
                /\ c.pc \in InitPcs => ENABLED ensureInitialized(p)
           /\ c.op = "close" => (c.pc = "done" /\ c.res = "ok")

\* every call was issued after the attempt failed, each of another operation, and
\* each has ended with the connection error
C16_Witness ==
  /\ conn = "failed"
  /\ connectAttempts = 1
  /\ \A p \in Procs : calls[p].late /\ calls[p].res = "err_conn"
  /\ \A p, q \in Procs : p # q => calls[p].op # calls[q].op

\* ------------------------------------------------------------ deleteObjects
Alone(p) == \A q \in Procs \ {p} : calls[q].op = "none"

\* C17: deleteObjects sends one delete-by-id request per id, one at a time in
\* the order given, and stops at the first one the store raises on: the call then
\* ends with the store's error, the ids before it are gone from the collection
\* (no other call working on it) and the ids after it are never requested; when
\* the store raises on none, ids it does not hold included, every id is requested
\* and the call returns.
C17_DeleteOneByOne ==
  \A p \in Procs :
    LET c == calls[p]
        sent == Len(c.log)
    IN
    c.op = "deleteObjects" =>
      /\ sent <= Len(c.ids)
      /\ \A j \in 1..sent : c.log[j] = Ev("deleteById", c.name, c.ids[j])
      /\ c.pc = "do_delete" => (c.i = sent + 1 /\ c.i <= Len(c.ids))
      /\ c.pc = "done" => c.res \in {"ok", "err_store", "err_conn"}
      /\ (c.pc = "done" /\ c.res = "err_conn") => sent = 0
      /\ (c.pc = "done" /\ c.res = "err_store") =>
           /\ sent >= 1
           /\ c.i = sent
           /\ Alone(p) => (faulted \/ c.name \notin collections)
           /\ ~OtherCallOn(c.name, p, p) =>
                \A j \in 1..(sent - 1) : c.ids[j] \notin StoredIds(c.name)
      /\ (c.pc = "done" /\ c.res = "ok") =>
           /\ sent = Len(c.ids)
           /\ Alone(p) => ~faulted
           /\ ~OtherCallOn(c.name, p, p) =>
                \A j \in 1..sent : c.ids[j] \notin StoredIds(c.name)

\* the store deleted 101 and raised on the second id, 102: the call has failed,
\* 101 stays deleted
C17_Witness ==
  \E p \in Procs :
    LET c == calls[p] IN
    /\ c.op = "deleteObjects" /\ c.name = "A" /\ c.ids = <<101, 102>>
    /\ c.pc = "done" /\ c.res = "err_store"
    /\ Len(c.log) = 2
    /\ Alone(p)
    /\ objects["A"] = << >>

\* ------------------------------------------------------------ indexing failures
\* C18: when the embed call of any one document of the batch is rejected, the
\* indexing call ends with that error, insertObjects is never called (no insert
\* request, no object in the store); when insertObjects fails, on the connection
\* or on its insert request, the indexing call ends with that very error and the
\* store holds no object of the batch.
C18_IndexAllOrNothing ==
  LET c == calls[FirstCall]
      inserts == Requests(c, "insert")
  IN
  c.op = "index" =>
    /\ c.rejected =>
         /\ c.pc = "done" /\ c.res = "err_embed"
         /\ inserts = 0
         /\ c.objs = << >>
    /\ (c.pc = "done" /\ c.res = "err_embed") => c.rejected
    /\ (\E n \in Names : objects[n] # << >>) =>
         (inserts = 1 /\ c.pc = "done" /\ c.res = "ok" /\ ~c.rejected)
    /\ inserts <= 1
    /\ c.pc \in {"io_init", "io_insert"} => (~c.rejected /\ c.pending = {})
    /\ (inserts = 1 /\ c.pc = "done") =>
         /\ c.log[Len(c.log)] = Ev("insert", c.name, insertRequest(c.objs))
         /\ c.res \in {"ok", "err_store"}
         /\ c.res = "err_store" => (faulted \/ c.name \notin collections)
    /\ (c.pc = "done" /\ ~c.rejected /\ ~createIfMissing(c)) =>
         /\ c.res \in {"ok", "err_conn", "err_store"}
         /\ c.res = "err_conn" <=> (conn = "failed" /\ inserts = 0)
         /\ c.res # "err_conn" => inserts = 1

\* of two documents one was embedded and the embed call of the other was
\* rejected: the indexing call has failed with that error and the store, where
\* the collection was created, holds no object
C18_Witness ==
  LET c == calls[FirstCall] IN
  /\ c.op = "index" /\ Len(c.docs) = 2
  /\ c.rejected /\ Len(c.arrival) = 1
  /\ c.pc = "done" /\ c.res = "err_embed"
  /\ c.name \in collections /\ objects[c.name] = << >>
  /\ Requests(c, "create") = 1

\* ------------------------------------------------------------ requests wait
\* a step of call p that sends the store a request
RequestStep(p) ==
  \/ configGet(p)
  \/ collectionsCreate(p)
  \/ insertMany(p)
  \/ nearVector(p)
  \/ deleteById(p)
  \/ collectionsDelete(p)
  \/ statsConfigGet(p)
  \/ aggregateOverAll(p)

\* C19: the wrapper sends the store no request (config lookup, create,
\* insertMany, nearVector, deleteById, collection delete, aggregate) before its
\* connection attempt has succeeded: until then no call has sent one, none is
\* about to, and the store is as it was; close sends none at all.
C19_NoRequestBeforeConnected ==
  /\ \A p \in Procs :
       LET c == calls[p] IN
       /\ Kinds(c, StoreKinds) # {} => conn = "ok"
       /\ c.pc \notin (InitPcs \cup {"idle", "done"}) => conn = "ok"
       /\ conn # "ok" => ~ENABLED RequestStep(p)
       /\ c.op = "close" => c.log = << >>
  /\ conn # "ok" =>
       /\ ~faulted
       /\ collections = {"A"}
       /\ objects = [n \in Names |-> IF n = "A" THEN HeldAtStart ELSE << >>]

\* the connection is made: the first call has had its deleteById request
\* answered and the other, a search, is about to send its nearVector request
C19_Witness ==
  /\ conn = "ok"
  /\ calls[FirstCall].op = "deleteObjects"
  /\ calls[FirstCall].log = << Ev("deleteById", "A", 101) >>
  /\ calls[FirstCall].pc = "done"
  /\ calls[SecondCall].op = "search"
  /\ calls[SecondCall].pc = "se_query"
  /\ calls[SecondCall].log = << >>
  /\ ENABLED nearVector(SecondCall)

\* ------------------------------------------------------------ _distance
\* C20: when the store has answered the search, result mapping yields one
\* document per result object, and the document's metadata carries _distance,
\* with the distance the store reported, exactly when the store reported a
\* distance for the object and its stored metadata property is a non-empty
\* string; an object whose stored metadata property is empty gets a document
\* without metadata.
C20_DistanceIffStoredMetadata ==
  LET c == calls[FirstCall] IN
  Mapped(c) =>
    /\ c.res = "ok"
    /\ Len(c.out) = Len(c.hits)
    /\ \A j \in DOMAIN c.hits :
         LET o == c.hits[j]
             m == c.out[j].metadata
         IN
         /\ HasKey(m, "_distance") <=>
              (o.metadata.distance # Unset /\ o.properties.metadata # << >>)
         /\ HasKey(m, "_distance") => ValueOf(m, "_distance") = o.metadata.distance[1]
         /\ o.properties.metadata = << >> => m = NoMeta

\* ------------------------------------------------------------ retrieval frame
\* what a call has asked of the embedder and of the store
Asked(c) == { c.log[j].k : j \in DOMAIN c.log }

\* C21: a retrieval call never changes the store.  Over retrieval calls made one
\* after the other, ending well or with an error, no step changes the set of
\* collections or the objects of any collection; all a retrieval call issues is
\* the embed call of its query and at most one nearest-vector search, never a
\* create, insert or delete request.
C21_RetrievalLeavesStore ==
  /\ [][UNCHANGED <<collections, objects>>]_vars
  /\ [](\A p \in Procs :
          calls[p].op = "retrieve" =>
            /\ Asked(calls[p]) \subseteq {"embed", "search"}
            /\ Requests(calls[p], "search") <= 1)

\* two retrieval calls were made on a collection that holds objects: the
\* first returned documents, the second failed at the store
C21_Witness ==
  /\ calls[FirstCall].op = "retrieve" /\ calls[FirstCall].pc = "done"
  /\ calls[FirstCall].res = "ok" /\ Len(calls[FirstCall].out) >= 2
  /\ calls[SecondCall].op = "retrieve" /\ calls[SecondCall].pc = "done"
  /\ calls[SecondCall].res = "err_store"
  /\ calls[SecondCall].name = calls[FirstCall].name
  /\ Len(objects[calls[FirstCall].name]) >= 2

\* ------------------------------------------------------------ failed setup
\* C22: when the plugin's initializer has failed because an entry has no
\* embedder, no indexer and no retriever is registered for any collection, the
\* entries listed before the faulty one included, and no connection attempt to
\* the store has been started.
C22_FailedSetupLeavesNothing ==
  pluginState = "failed" =>
    /\ indexers = {}
    /\ retrievers = {}
    /\ connectAttempts = 0
    /\ conn = "none"

====
